---- MODULE Spec2Model ----
(***************************************************************************)
(* The image pipeline of rustography: src/src/image_manipulator.rs.       *)
(*                                                                         *)
(* ImageManipulator holds a decoded image, an output path and three        *)
(* optional requests.  The builder calls set the requests; save() runs     *)
(* try_add_border, try_fill_aspect_ratio and try_longest_side in that      *)
(* order and then writes the image to the output path.                     *)
(*                                                                         *)
(* The arithmetic of the code is kept: u32 dimensions, the f32 ratio       *)
(* arithmetic of calculate_dimensions (24-bit significands, round to       *)
(* nearest even, ceil, saturating cast to u32) and the f64 arithmetic of   *)
(* the image crate's resize (53-bit significands, round half away from     *)
(* zero, at least 1).                                                      *)
(***************************************************************************)
EXTENDS Integers, Sequences, FiniteSets, TLC

(***************************************************************************)
(* Binary floating point.  A float is a record                            *)
(*   [cls |-> "nan" | "inf" | "zero" | "fin", neg |-> sign,                *)
(*    man |-> the significand: at most p binary digits, the first and the  *)
(*            last of them 1,                                              *)
(*    exp |-> e]        with value  (-1)^neg * man * 2^e  when cls = "fin".*)
(* p is 24 for f32 and 53 for f64.  Exponent range is not modelled: no     *)
(* value of the pipeline comes near the overflow or subnormal range.       *)
(***************************************************************************)
F32Bits == 24

F64Bits == 53

PowersOfTwo ==
    <<1, 2, 4, 8, 16, 32, 64, 128, 256, 512, 1024, 2048, 4096, 8192, 16384, 32768,
      65536, 131072, 262144, 524288, 1048576, 2097152, 4194304, 8388608, 16777216,
      33554432, 67108864, 134217728, 268435456, 536870912, 1073741824>>

\* 2^n for n in 0..30
Pow2(n) == PowersOfTwo[n + 1]

Zeros(n) == IF n > 0 THEN [i \in 1..n |-> 0] ELSE <<>>

AnyOne(b) == \E i \in 1..Len(b) : b[i] = 1

\* the number of zeros before the first 1, and after the last 1, of a digit
\* sequence that has a 1
LeadingZeros(b) == CHOOSE k \in 0..(Len(b) - 1) : b[k + 1] = 1 /\ \A j \in 1..k : b[j] = 0

RECURSIVE LastDigit(_, _, _, _)
\* the index of the last digit v of b, known to lie in lo..hi (halving the range)
LastDigit(b, v, lo, hi) ==
    IF lo = hi THEN lo
    ELSE IF \E i \in ((lo + hi + 1) \div 2)..hi : b[i] = v
         THEN LastDigit(b, v, (lo + hi + 1) \div 2, hi)
         ELSE LastDigit(b, v, lo, (lo + hi + 1) \div 2 - 1)

TrailingZeros(b) == Len(b) - LastDigit(b, 1, 1, Len(b))

StripLeadingZeros(b) == IF AnyOne(b) THEN SubSeq(b, LeadingZeros(b) + 1, Len(b)) ELSE <<>>

\* n < 2^k as a sequence of k binary digits, most significant first
FixedBits(n, k) == [i \in 1..k |-> (n \div Pow2(k - i)) % 2]

\* the binary digits of a natural number below 2^31, most significant first
BitsOf(n) == FixedBits(n, Cardinality({k \in 0..30 : Pow2(k) <= n}))

RECURSIVE NatOf(_)
\* the natural number of a sequence of at most 31 binary digits
NatOf(b) ==
    IF Len(b) = 0 THEN 0
    ELSE IF Len(b) = 1 THEN b[1]
    ELSE NatOf(SubSeq(b, 1, Len(b) \div 2)) * Pow2(Len(b) - Len(b) \div 2)
             + NatOf(SubSeq(b, Len(b) \div 2 + 1, Len(b)))

\* b with 1 at k and zeros after it
CarryInto(b, k) == [i \in 1..Len(b) |-> IF i < k THEN b[i] ELSE IF i = k THEN 1 ELSE 0]

\* b + 1 on a digit sequence that has a 0
IncBits(b) == CarryInto(b, LastDigit(b, 0, 1, Len(b)))

FNaN == [cls |-> "nan", neg |-> FALSE, man |-> <<>>, exp |-> 0]

FInf(neg) == [cls |-> "inf", neg |-> neg, man |-> <<>>, exp |-> 0]

FZero(neg) == [cls |-> "zero", neg |-> neg, man |-> <<>>, exp |-> 0]

\* the float digits * 2^e, for digits that start with 1: the significand is
\* kept without its trailing zeros
FFin(neg, digits, e) ==
    [cls |-> "fin", neg |-> neg,
     man |-> SubSeq(digits, 1, Len(digits) - TrailingZeros(digits)),
     exp |-> e + TrailingZeros(digits)]

\* the p digits kept, rounded up or not: a carry out of the top makes 1000...
RoundKept(p, neg, keep, up, e) ==
    IF up /\ (\A i \in 1..p : keep[i] = 1) THEN FFin(neg, <<1>>, e + p)
    ELSE FFin(neg, IF up THEN IncBits(keep) ELSE keep, e)

\* round to nearest, ties to even, at p digits: the exact value is b * 2^e
\* (b starts with 1), plus something strictly between 0 and one unit of b's
\* last digit when more.
FRound(p, neg, b, e, more) ==
    IF Len(b) <= p
    THEN FFin(neg, b, e)
    ELSE RoundKept(p, neg, SubSeq(b, 1, p),
                   b[p + 1] = 1 /\ (more \/ AnyOne(SubSeq(b, p + 2, Len(b))) \/ b[p] = 1),
                   e + (Len(b) - p))

\* an integer as a float of precision p (u32 as f32, u32 as f64, usize as f64)
FFromInt(p, n) ==
    IF n = 0 THEN FZero(FALSE)
    ELSE IF n < 0 THEN FRound(p, TRUE, BitsOf(-n), 0, FALSE)
    ELSE FRound(p, FALSE, BitsOf(n), 0, FALSE)

DivPrepend(digits, rest) == [q |-> digits \o rest.q, r |-> rest.r]

RECURSIVE DivDigits(_, _, _)
\* at most k steps, of six binary digits each, of the long division of r / d
\* for r < d: the digits after the binary point and the remainder left (the
\* division stops when it comes out even)
DivDigits(r, d, k) ==
    IF k = 0 \/ r = 0 THEN [q |-> <<>>, r |-> r]
    ELSE DivPrepend(FixedBits((r * 64) \div d, 6),
                    DivDigits((r * 64) % d, d, k - 1))

\* the steps that give p + 2 significant digits of a quotient of at least 2^-24
DivSteps(p) == (p + 2 + 24) \div 6 + 1

FDivRound(p, neg, n, res, e) ==
    FRound(p, neg, StripLeadingZeros(BitsOf(n) \o res.q),
           e - Len(res.q), res.r # 0)

\* n * 2^e / d for natural numbers n, d
FDivFin(p, neg, n, d, e) ==
    FDivRound(p, neg, n \div d, DivDigits(n % d, d, DivSteps(p)), e)

\* a / b, correctly rounded (the significands must fit an integer, the one of
\* b 24 digits)
FDiv(p, a, b) ==
    CASE a.cls = "nan" \/ b.cls = "nan" -> FNaN
      [] a.cls = "inf" /\ b.cls = "inf" -> FNaN
      [] a.cls = "zero" /\ b.cls = "zero" -> FNaN
      [] a.cls = "inf" -> FInf(a.neg # b.neg)
      [] b.cls = "inf" -> FZero(a.neg # b.neg)
      [] a.cls = "zero" -> FZero(a.neg # b.neg)
      [] b.cls = "zero" -> FInf(a.neg # b.neg)
      [] OTHER ->
           FDivFin(p, a.neg # b.neg, NatOf(a.man), NatOf(b.man), a.exp - b.exp)

RECURSIVE MulDigits(_, _, _)
RECURSIVE MulStep(_, _, _)
\* the digits of b * x + carry for a digit sequence b and natural numbers x, carry,
\* eight digits of b a step
MulDigits(b, x, carry) ==
    IF Len(b) = 0 THEN BitsOf(carry)
    ELSE IF Len(b) < 8 THEN BitsOf(NatOf(b) * x + carry)
    ELSE MulStep(SubSeq(b, 1, Len(b) - 8), x,
                 NatOf(SubSeq(b, Len(b) - 7, Len(b))) * x + carry)

MulStep(b, x, t) == MulDigits(b, x, t \div 256) \o FixedBits(t % 256, 8)

\* a * b, correctly rounded (a's significand must be below 2^22)
FMul(p, a, b) ==
    CASE a.cls = "nan" \/ b.cls = "nan" -> FNaN
      [] a.cls = "inf" /\ b.cls = "zero" -> FNaN
      [] a.cls = "zero" /\ b.cls = "inf" -> FNaN
      [] a.cls = "inf" \/ b.cls = "inf" -> FInf(a.neg # b.neg)
      [] a.cls = "zero" \/ b.cls = "zero" -> FZero(a.neg # b.neg)
      [] OTHER ->
           FRound(p, a.neg # b.neg, MulDigits(b.man, NatOf(a.man), 0),
                  a.exp + b.exp, FALSE)

\* x < y for digit sequences of equal length
BitsLess(x, y) ==
    \E i \in 1..Len(x) : x[i] < y[i] /\ \A j \in 1..(i - 1) : x[j] = y[j]

\* x < y for positive finite floats
MagLess(x, y) ==
    \/ x.exp + Len(x.man) < y.exp + Len(y.man)
    \/ /\ x.exp + Len(x.man) = y.exp + Len(y.man)
       /\ BitsLess(x.man \o Zeros(Len(y.man) - Len(x.man)),
                   y.man \o Zeros(Len(x.man) - Len(y.man)))

FSign(f) == IF f.cls = "zero" THEN 0 ELSE IF f.neg THEN -1 ELSE 1

\* a < b for floats of one precision that are not NaN
FLess(a, b) ==
    CASE FSign(a) # FSign(b) -> FSign(a) < FSign(b)
      [] a.cls = "zero" -> FALSE
      [] a.cls = "inf" /\ b.cls = "inf" -> FALSE
      [] a.cls = "inf" -> a.neg
      [] b.cls = "inf" -> ~b.neg
      [] OTHER -> IF a.neg THEN MagLess(b, a) ELSE MagLess(a, b)

\* the integer part of a positive finite float below 2^31
IntPart(f) ==
    IF f.exp >= 0 THEN NatOf(f.man \o Zeros(f.exp))
    ELSE IF -f.exp >= Len(f.man) THEN 0
    ELSE NatOf(SubSeq(f.man, 1, Len(f.man) + f.exp))

\* the digits after the binary point
FracBits(f) ==
    IF f.exp >= 0 THEN <<>>
    ELSE IF -f.exp >= Len(f.man) THEN Zeros(-f.exp - Len(f.man)) \o f.man
    ELSE SubSeq(f.man, Len(f.man) + f.exp + 1, Len(f.man))

\* f32::ceil followed by `as u32`: NaN and everything that is not positive go
\* to 0.  (A positive infinity saturates to u32::MAX; no input of this model
\* produces one.)
F32CeilAsU32(f) ==
    CASE f.cls = "nan" -> 0
      [] f.cls = "zero" -> 0
      [] f.neg -> 0
      [] f.cls = "fin" -> IntPart(f) + (IF AnyOne(FracBits(f)) THEN 1 ELSE 0)

\* the fraction dropped
F64TruncAsU64(f) ==
    CASE f.cls = "nan" -> 0
      [] f.cls = "zero" -> 0
      [] f.neg -> 0
      [] f.cls = "fin" -> IntPart(f)

\* f64::round (half away from zero) followed by `as u64`
F64RoundAsU64(f) ==
    CASE f.cls = "nan" -> 0
      [] f.cls = "zero" -> 0
      [] f.neg -> 0
      [] f.cls = "fin" ->
           IntPart(f) + (IF FracBits(f) # <<>> /\ FracBits(f)[1] = 1 THEN 1 ELSE 0)

(***************************************************************************)
(* Bounds of the model.                                                    *)
(***************************************************************************)
\* decoded images of every size up to MaxDim x MaxDim
MaxDim == 2

\* border thicknesses 0..MaxBorder
MaxBorder == 1

\* ratio parts 1..MaxRatio
MaxRatio == 2

\* longest sides 0..MaxLongest
MaxLongest == 2

\* builder calls on one driver, all of them made before its first save()
\* (the builders consume the driver and hand it back: a chain that ends in save())
MaxCalls == 3

\* calls of save() on one driver
MaxSaves == 2

\* images up to ScanAll pixels a side are compared at every pixel, larger
\* ones at the edges of the canvas and of the pasted rectangle
ScanAll == 8

\* 2^31 - 1, the largest thickness and dimension represented; u32::MAX is
\* 2 * MaxI32 + 1
MaxI32 == 2147483647

(***************************************************************************)
(* The raster buffer (image::DynamicImage, 8-bit RGBA).  A buffer is its   *)
(* dimensions and the composition that made its pixels: layers is the list *)
(* of canvases laid since decoding, each with the dimensions of the buffer *)
(* it was made from.  Pixel(img, x, y) is what get_pixel(x, y) returns.    *)
(***************************************************************************)
None == <<>>

Some(v) == <<v>>

\* Rgba([255; 4])
White == <<"white", 0, 0>>

\* image::open(input): the decoded file; its pixel (x, y) is <<"src", x, y>>
Decoded(w, h) == [width |-> w, height |-> h, layers |-> <<>>]

RECURSIVE PixelAt(_, _, _, _)
PixelAt(layers, n, x, y) ==
    IF n = 0 THEN <<"src", x, y>>
    ELSE LET l == layers[n]
         IN  IF l.op = "resample" THEN <<"resampled", x, y>>
             ELSE IF x >= l.xo /\ x < l.xo + l.w /\ y >= l.yo /\ y < l.yo + l.h
                  THEN PixelAt(layers, n - 1, x - l.xo, y - l.yo)
                  ELSE White

Pixel(img, x, y) == PixelAt(img.layers, Len(img.layers), x, y)

\* the canvas painting shared by try_add_border and fill_to_given_dimensions:
\* resize_exact to width x height, every pixel set to white, then every
\* pixel (x, y) of the old image put at (x + x_offset, y + y_offset)
fill_to_given_dimensions(img, width, height, orig_width, orig_height, x_offset, y_offset) ==
    [width |-> width, height |-> height,
     layers |-> Append(img.layers, [op |-> "paste", w |-> orig_width, h |-> orig_height,
                                    xo |-> x_offset, yo |-> y_offset])]

\* width + spacing * 2 does not fit: the u32 arithmetic overflows (a panic in
\* a debug build; in a release build the dimension wraps around and the first
\* put_pixel(x + spacing, y + spacing) is out of bounds, a panic), or the
\* canvas has 2^31 or more pixels a side and cannot be allocated.  In every
\* build the process ends before self.image is assigned.
BorderPanics(dim, spacing) == spacing > (MaxI32 - dim) \div 2

Bordered(img, spacing) ==
    IF BorderPanics(img.width, spacing) \/ BorderPanics(img.height, spacing)
    THEN [image |-> img, panic |-> TRUE]
    ELSE [image |-> fill_to_given_dimensions(img, img.width + spacing * 2,
                        img.height + spacing * 2, img.width, img.height, spacing, spacing),
          panic |-> FALSE]

\* try_add_border: [image, panic]
try_add_border(img, expected_border_spacing) ==
    IF expected_border_spacing = None THEN [image |-> img, panic |-> FALSE]
    ELSE Bordered(img, expected_border_spacing[1])

\* aspect_width / aspect_height, in f32
AspectRatio(ratio) ==
    FDiv(F32Bits, FFromInt(F32Bits, ratio[1]), FFromInt(F32Bits, ratio[2]))

\* the two branches taken for each other
PickDimensionsSwapped(original_width, original_height, width_based_height, height_based_width) ==
    IF width_based_height >= original_height
    THEN <<height_based_width, original_height>>
    ELSE <<original_width, width_based_height>>

PickDimensions(original_width, original_height, width_based_height, height_based_width) ==
    IF width_based_height >= original_height
    THEN <<original_width, width_based_height>>
    ELSE <<height_based_width, original_height>>

\* calculate_dimensions: (new_width, new_height), in f32
calculate_dimensions(original_width, original_height, aspect_ratio) ==
    PickDimensions(original_width, original_height,
        F32CeilAsU32(FDiv(F32Bits, FFromInt(F32Bits, original_width), aspect_ratio)),
        F32CeilAsU32(FMul(F32Bits, FFromInt(F32Bits, original_height), aspect_ratio)))

\* i64 division by 2 truncates toward zero
HalfI64(n) == IF n >= 0 THEN n \div 2 ELSE -((-n) \div 2)

\* the rest of try_fill_aspect_ratio, once the offsets are known
FillWithOffsets(img, expected, x_offset, y_offset) ==
    IF x_offset > 0 \/ y_offset > 0
    THEN fill_to_given_dimensions(img, expected[1], expected[2], img.width, img.height,
                                  x_offset, y_offset)
    ELSE img

\* the rest of try_fill_aspect_ratio, once (expected_width, expected_height) is known
FillToExpected(img, expected) ==
    FillWithOffsets(img, expected,
        IF img.width < expected[1] THEN HalfI64(expected[1] - img.width) ELSE 0,
        IF img.width < expected[1] THEN 0 ELSE HalfI64(expected[2] - img.height))

\* try_fill_aspect_ratio
try_fill_aspect_ratio(img, expected_ratio) ==
    IF expected_ratio = None THEN img
    ELSE FillToExpected(img, calculate_dimensions(img.width, img.height,
                                                  AspectRatio(expected_ratio[1])))

Max(a, b) == IF a >= b THEN a ELSE b

Min(a, b) == IF a <= b THEN a ELSE b

\* the larger ratio for the smaller
F64MinAsMax(a, b) == IF FLess(a, b) THEN b ELSE a

\* f64::min(wratio, hratio)
F64Min(a, b) == IF FLess(b, a) THEN b ELSE a

\* without the floor of 1
ScaleSideUnclamped(side, ratio) ==
    F64RoundAsU64(FMul(F64Bits, FFromInt(F64Bits, side), ratio))

\* max((side as f64 * ratio).round() as u64, 1)
ScaleSide(side, ratio) ==
    Max(F64RoundAsU64(FMul(F64Bits, FFromInt(F64Bits, side), ratio)), 1)

ScaleBoth(width, height, ratio) == <<ScaleSide(width, ratio), ScaleSide(height, ratio)>>

\* image::math::utils::resize_dimensions(width, height, nwidth, nheight, false)
\* of the image crate (0.24 and later, the versions in which DynamicImage has
\* the Default that the derive on ImageManipulator asks for), in f64:
\*   ratio = f64::min(nwidth / width, nheight / height)
\*   (max((width * ratio).round(), 1), max((height * ratio).round(), 1))
\* the largest size of the same aspect ratio that fits nwidth x nheight
resize_dimensions(width, height, nwidth, nheight) ==
    ScaleBoth(width, height,
        F64Min(FDiv(F64Bits, FFromInt(F64Bits, nwidth), FFromInt(F64Bits, width)),
               FDiv(F64Bits, FFromInt(F64Bits, nheight), FFromInt(F64Bits, height))))

Resized(img, dims) ==
    IF dims = <<img.width, img.height>> THEN img
    ELSE [width |-> dims[1], height |-> dims[2],
          layers |-> Append(img.layers, [op |-> "resample", w |-> img.width,
                                         h |-> img.height, xo |-> 0, yo |-> 0])]

\* an absent request taken for its default, 0
try_longest_side_or_default(img, expected_longest_side) ==
    Resized(img, resize_dimensions(img.width, img.height,
                IF expected_longest_side = None THEN 0 ELSE expected_longest_side[1],
                IF expected_longest_side = None THEN 0 ELSE expected_longest_side[1]))

\* try_longest_side: DynamicImage::resize(longest_side, longest_side, Lanczos3).
\* A resize to the image's own dimensions copies it; any other one resamples.
try_longest_side(img, expected_longest_side) ==
    IF expected_longest_side = None THEN img
    ELSE Resized(img, resize_dimensions(img.width, img.height,
                                        expected_longest_side[1], expected_longest_side[1]))

(***************************************************************************)
(* The driver: struct ImageManipulator, its builder calls and save().      *)
(***************************************************************************)
VARIABLES
    image,                    \* self.image
    output,                   \* self.output
    expected_ratio,           \* self.expected_ratio: Option<(f32, f32)>
    expected_longest_side,    \* self.expected_longest_side: Option<usize>
    expected_border_spacing,  \* self.expected_border_spacing: Option<usize>
    storage,                  \* the files written, in order: [path, image]
    status,                   \* "alive", or "panicked" once a stage has panicked
    calls,                    \* history: the builder calls made, in order
    run                       \* history: the last completed save(), stage by stage

vars == <<image, output, expected_ratio, expected_longest_side, expected_border_spacing,
          storage, status, calls, run>>

OutPath == "out.png"

\* the sizes of the decoded files: every size up to MaxDim, and the sizes of
\* the documented scenarios and of the rounding cases
DecodedSizes ==
    ((1..MaxDim) \X (1..MaxDim))
        \cup {<<4000, 3000>>, <<1000, 2000>>, <<22, 11>>, <<1, 21>>}

\* usize thicknesses: small ones, the documented 20, and one whose border
\* does not fit a u32 dimension
BorderInputs == (0..MaxBorder) \cup {20, MaxI32}

\* (f32, f32) ratios: the positive ones, and pairs with a part that is not
\* positive (0/0 is NaN, -1/0 is -inf, 0/-1 is -0.0).  A quotient of +0.0 or
\* +inf asks for a canvas of u32::MAX pixels a side, beyond the dimensions
\* represented.
PositiveRatios == ((1..MaxRatio) \X (1..MaxRatio)) \cup {<<1, 7>>}

RatioInputs == PositiveRatios \cup {<<0, 0>>, <<-1, 1>>, <<-1, 0>>, <<0, -1>>}

\* usize longest sides: small ones with 0, and the documented 15 and 1350
LongestInputs == (0..MaxLongest) \cup {15, 1350}

\* ImageManipulator::new: the decoded image, the output path, no request
Init ==
    /\ \E d \in DecodedSizes : image = Decoded(d[1], d[2])
    /\ output = OutPath
    /\ expected_ratio = None
    /\ expected_longest_side = None
    /\ expected_border_spacing = None
    /\ storage = <<>>
    /\ status = "alive"
    /\ calls = <<>>
    /\ run = [pre |-> image, bordered |-> image, filled |-> image, resized |-> image,
              border |-> None, ratio |-> None, longest |-> None]

add_border(spacing) ==
    /\ status = "alive"
    /\ Len(calls) < MaxCalls /\ storage = <<>>
    /\ expected_border_spacing' = Some(spacing)
    /\ calls' = Append(calls, "add_border")
    /\ UNCHANGED <<image, output, expected_ratio, expected_longest_side, storage, status, run>>

fill_to_aspect_ratio(width, height) ==
    /\ status = "alive"
    /\ Len(calls) < MaxCalls /\ storage = <<>>
    /\ expected_ratio' = Some(<<width, height>>)
    /\ calls' = Append(calls, "fill_to_aspect_ratio")
    /\ UNCHANGED <<image, output, expected_longest_side, expected_border_spacing, storage,
                   status, run>>

longest_side(size) ==
    /\ status = "alive"
    /\ Len(calls) < MaxCalls /\ storage = <<>>
    /\ expected_longest_side' = Some(size)
    /\ calls' = Append(calls, "longest_side")
    /\ UNCHANGED <<image, output, expected_ratio, expected_border_spacing, storage, status, run>>

StagesDone(b, f, r) == [panic |-> b.panic, bordered |-> b.image, filled |-> f, resized |-> r]

AfterFill(b, f, longest) == StagesDone(b, f, try_longest_side(f, longest))

AfterBorder(b, ratio, longest) == AfterFill(b, try_fill_aspect_ratio(b.image, ratio), longest)

\* the stages in another order: the resize first, the aspect fill last
FilledLast(b, f) == StagesDone(b, f, f)

ResizedFirst(b, ratio) == FilledLast(b, try_fill_aspect_ratio(b.image, ratio))

save_stages_resize_first(img, border, ratio, longest) ==
    ResizedFirst(try_add_border(try_longest_side(img, longest), border), ratio)

\* the three stages of save(), in the order save() calls them
save_stages(img, border, ratio, longest) ==
    AfterBorder(try_add_border(img, border), ratio, longest)

\* a save() that works on a copy and leaves the driver's buffer as it was
SaveWithBufferKept(s) ==
    IF s.panic
    THEN /\ status' = "panicked"
         /\ UNCHANGED <<image, storage, run>>
    ELSE /\ image' = image
         /\ storage' = Append(storage, [path |-> output, image |-> s.resized])
         /\ run' = [pre |-> image, bordered |-> s.bordered, filled |-> s.filled,
                    resized |-> s.resized, border |-> expected_border_spacing,
                    ratio |-> expected_ratio, longest |-> expected_longest_side]
         /\ UNCHANGED status

\* a save() that writes once more, after the border
SaveWithBorderWritten(s) ==
    IF s.panic
    THEN /\ status' = "panicked"
         /\ UNCHANGED <<image, storage, run>>
    ELSE /\ image' = s.resized
         /\ storage' = storage \o <<[path |-> output, image |-> s.bordered],
                                    [path |-> output, image |-> s.resized]>>
         /\ run' = [pre |-> image, bordered |-> s.bordered, filled |-> s.filled,
                    resized |-> s.resized, border |-> expected_border_spacing,
                    ratio |-> expected_ratio, longest |-> expected_longest_side]
         /\ UNCHANGED status

\* self.image.save(self.output.clone()): the file written
image_save(img, path) == [path |-> path, image |-> img]

SaveWith(s) ==
    IF s.panic
    THEN /\ status' = "panicked"
         /\ UNCHANGED <<image, storage, run>>
    ELSE /\ image' = s.resized
         /\ storage' = Append(storage, image_save(s.resized, output))
         /\ run' = [pre |-> image, bordered |-> s.bordered, filled |-> s.filled,
                    resized |-> s.resized, border |-> expected_border_spacing,
                    ratio |-> expected_ratio, longest |-> expected_longest_side]
         /\ UNCHANGED status

save ==
    /\ status = "alive"
    /\ Len(storage) < MaxSaves
    /\ SaveWith(save_stages(image, expected_border_spacing, expected_ratio,
                            expected_longest_side))
    /\ UNCHANGED <<output, expected_ratio, expected_longest_side, expected_border_spacing, calls>>

Next ==
    \/ \E spacing \in BorderInputs : add_border(spacing)
    \/ \E r \in RatioInputs : fill_to_aspect_ratio(r[1], r[2])
    \/ \E size \in LongestInputs : longest_side(size)
    \/ save

Spec == Init /\ [][Next]_vars

(***************************************************************************)
(* Comparing buffers.                                                      *)
(***************************************************************************)
\* the coordinates 0..n-1 looked at: all of them up to ScanAll, else the
\* first, the last and the given cuts
Scan(n, cuts) ==
    IF n <= ScanAll THEN 0..(n - 1)
    ELSE {c \in cuts \cup {0, n - 1} : 0 <= c /\ c < n}

\* orig lies in res with its corner at (xo, yo), pixel for pixel
ContentAt(res, orig, xo, yo) ==
    /\ xo >= 0 /\ yo >= 0
    /\ xo + orig.width <= res.width /\ yo + orig.height <= res.height
    /\ \A x \in Scan(orig.width, {}), y \in Scan(orig.height, {}) :
           Pixel(res, x + xo, y + yo) = Pixel(orig, x, y)

\* every pixel of res outside the w x h rectangle at (xo, yo) is opaque white
WhiteAround(res, w, h, xo, yo) ==
    \A x \in Scan(res.width, {xo - 1, xo, xo + w - 1, xo + w}),
       y \in Scan(res.height, {yo - 1, yo, yo + h - 1, yo + h}) :
        (x >= xo /\ x < xo + w /\ y >= yo /\ y < yo + h) \/ Pixel(res, x, y) = White

\* the same dimensions and the same pixels
SameBuffer(a, b) ==
    /\ a.width = b.width /\ a.height = b.height
    /\ ContentAt(a, b, 0, 0)

(***************************************************************************)
(* The border stage.                                                       *)
(***************************************************************************)
\* what the border stage owes for the buffer img and the thickness t, b being
\* what it did
BorderContract(img, t, b) ==
    /\ ~b.panic
    /\ b.image.width = img.width + 2 * t
    /\ b.image.height = img.height + 2 * t
    /\ ContentAt(b.image, img, t, t)
    /\ WhiteAround(b.image, img.width, img.height, t, t)
    /\ (t = 0 => SameBuffer(b.image, img))

\* C1: for every buffer w x h and every border thickness t >= 0, the border
\* stage yields a buffer of size (w + 2t) x (h + 2t) with the original at
\* offset (t, t), pixel for pixel, and opaque white everywhere else; for
\* t = 0 the result is identical to the input.
C1_BorderOfEveryThickness ==
    (status = "alive" /\ expected_border_spacing # None)
        => BorderContract(image, expected_border_spacing[1],
                          try_add_border(image, expected_border_spacing))

(***************************************************************************)
(* The order of the stages.                                                *)
(***************************************************************************)
LastWrite == storage[Len(storage)]

\* C2: whatever the order and the repetition of the builder calls made before
\* save(), the buffer saved is the resize of the aspect fill of the border of
\* the driver's buffer, each stage with the request's value at the time of
\* save(): a function of those values alone.
C2_FixedStageOrder ==
    storage # <<>>
        => /\ LastWrite.image =
                  try_longest_side(
                      try_fill_aspect_ratio(try_add_border(run.pre, run.border).image,
                                            run.ratio),
                      run.longest)
           /\ image = LastWrite.image

\* a save() after builder calls out of the stages' order, one of them
\* repeated, whose border and resize both changed the buffer
C2_Witness ==
    /\ storage # <<>>
    /\ \E i, j \in 1..Len(calls) :
           i < j /\ calls[i] = "longest_side" /\ calls[j] = "add_border"
    /\ \E i, j \in 1..Len(calls) : i < j /\ calls[i] = calls[j]
    /\ run.bordered.width > run.pre.width
    /\ run.resized.width # run.filled.width

(***************************************************************************)
(* Stages that are not requested.                                          *)
(***************************************************************************)
\* C3: a stage whose request is absent at save() leaves the buffer as it was,
\* dimensions and pixels; with no stage requested save() writes the decoded
\* buffer unmodified.
C3_AbsentStageUnchanged ==
    storage # <<>>
        => /\ run.border = None => SameBuffer(run.bordered, run.pre)
           /\ run.ratio = None => SameBuffer(run.filled, run.bordered)
           /\ run.longest = None => SameBuffer(run.resized, run.filled)
           /\ (run.border = None /\ run.ratio = None /\ run.longest = None)
                  => \A i \in 1..Len(storage) :
                         SameBuffer(storage[i].image,
                                    Decoded(run.pre.width, run.pre.height))

\* a save() without border and without resize whose aspect fill widened the buffer
C3_Witness ==
    /\ storage # <<>>
    /\ run.border = None /\ run.longest = None /\ run.ratio # None
    /\ run.filled.width > run.bordered.width

(***************************************************************************)
(* The aspect fill stage.                                                  *)
(***************************************************************************)
Abs(n) == IF n >= 0 THEN n ELSE -n

\* a save() whose aspect fill had a ratio of two positive parts
FilledToPositiveRatio ==
    /\ storage # <<>>
    /\ run.ratio # None
    /\ run.ratio[1][1] > 0 /\ run.ratio[1][2] > 0

\* nothing of orig is cropped in res, orig is centred in it, and the sides of
\* res are in the ratio rw : rh to within one pixel
FillContract(orig, res, rw, rh) ==
    /\ res.width >= orig.width
    /\ res.height >= orig.height
    /\ ContentAt(res, orig, (res.width - orig.width) \div 2,
                 (res.height - orig.height) \div 2)
    /\ \/ Abs(res.width * rh - res.height * rw) <= rh
       \/ Abs(res.height * rw - res.width * rh) <= rw

\* C4: for every buffer w x h and every positive ratio (rw, rh) the aspect
\* fill gives W x H with W >= w and H >= h, the original content whole at the
\* centring offset, and |W - H * rw / rh| <= 1 or |H - W * rh / rw| <= 1.
C4_FillKeepsContentAndRatio ==
    FilledToPositiveRatio
        => FillContract(run.bordered, run.filled, run.ratio[1][1], run.ratio[1][2])

\* an aspect fill to a positive ratio that made the buffer higher
C4_Witness ==
    /\ FilledToPositiveRatio
    /\ run.filled.height > run.bordered.height

\* C5: the aspect fill is idempotent: a second application with the same
\* positive ratio to the output of the first changes nothing, dimensions or pixels.
C5_FillIdempotent ==
    FilledToPositiveRatio
        => SameBuffer(try_fill_aspect_ratio(run.filled, run.ratio), run.filled)

\* the least integer that is at least a / b, for a >= 0 and b > 0
CeilDiv(a, b) == (a + b - 1) \div b

\* the target of the exact arithmetic: (w, ceil(w * rh / rw)) when that is at
\* least as high as the buffer, else (ceil(h * rw / rh), h)
ExactTarget(w, h, rw, rh) ==
    IF CeilDiv(w * rh, rw) >= h THEN <<w, CeilDiv(w * rh, rw)>>
    ELSE <<CeilDiv(h * rw, rh), h>>

\* res is orig filled to target: left alone when the offset is 0
FilledTo(orig, res, target, xo, yo) ==
    IF xo = 0 /\ yo = 0 THEN SameBuffer(res, orig)
    ELSE /\ res.width = target[1] /\ res.height = target[2]
         /\ ContentAt(res, orig, xo, yo)
         /\ WhiteAround(res, orig.width, orig.height, xo, yo)

FilledToTarget(orig, res, target) ==
    /\ target[1] = orig.width \/ target[2] = orig.height
    /\ FilledTo(orig, res, target, (target[1] - orig.width) \div 2,
                (target[2] - orig.height) \div 2)

\* C10: for a w x h buffer and a positive ratio (rw, rh) the aspect fill takes
\* candidate_height = ceil(w * rh / rw); the target is (w, candidate_height)
\* if that is at least h, else (ceil(h * rw / rh), h); one axis grows, its
\* offset is floor((target - original) / 2), the other offset is 0; with an
\* offset of 0 the buffer is left unchanged, otherwise the result has the
\* target dimensions, the content at the offset and white elsewhere.  So
\* 1000 x 2000 at 1:1 gives 2000 x 2000 with the content at x-offset 500.
C10_FillAlgorithm ==
    FilledToPositiveRatio
        => /\ FilledToTarget(run.bordered, run.filled,
                  ExactTarget(run.bordered.width, run.bordered.height,
                              run.ratio[1][1], run.ratio[1][2]))
           /\ (run.bordered.width = 1000 /\ run.bordered.height = 2000
                   /\ run.ratio = Some(<<1, 1>>))
                  => /\ run.filled.width = 2000 /\ run.filled.height = 2000
                     /\ ContentAt(run.filled, run.bordered, 500, 0)

(***************************************************************************)
(* The longest side stage.                                                 *)
(***************************************************************************)
\* a save() whose resize had a target above 0
ResizedToPositive ==
    /\ storage # <<>>
    /\ run.longest # None
    /\ run.longest[1] > 0

\* a * L / b rounded to the nearest integer, halves upward
RoundDiv(a, b) == (2 * a + b) \div (2 * b)

\* the sides (big, small) of the result for the sides (M, m) of the original,
\* M >= m, as the specification has them
ExactLongestSide(big, small, M, m, L) ==
    /\ big = L
    /\ small = RoundDiv(m * L, M)
    /\ small <= L

\* C6 as the specification states it: for every buffer w x h and every L > 0,
\* after the resize max(width, height) = L and min(width, height) =
\* round(min(w, h) * L / max(w, h)), and neither side exceeds L.
C6_ExactRounding ==
    ResizedToPositive
        => ExactLongestSide(Max(run.resized.width, run.resized.height),
                            Min(run.resized.width, run.resized.height),
                            Max(run.filled.width, run.filled.height),
                            Min(run.filled.width, run.filled.height),
                            run.longest[1])

\* n is m * L / M rounded to a nearest integer (either one at a half), or 1
\* when that would be 0
NearestOrOne(n, m, M, L) ==
    \/ n >= 1 /\ 2 * Abs(n * M - m * L) <= M
    \/ n = 1 /\ 2 * m * L < M

\* res is orig resized to the longest side L
LongestSideContract(orig, res, L) ==
    /\ Max(res.width, res.height) = L
    /\ res.width <= L /\ res.height <= L
    /\ orig.width >= orig.height
           => /\ res.width = L
              /\ NearestOrOne(res.height, orig.height, orig.width, L)
    /\ orig.height >= orig.width
           => /\ res.height = L
              /\ NearestOrOne(res.width, orig.width, orig.height, L)

\* C6: for every buffer w x h and every L > 0, after the resize the side that
\* was the longer one is L, the other one is min(w, h) * L / max(w, h) rounded
\* to a nearest integer (a half may go either way) and at least 1, and
\* neither side exceeds L.
C6_LongestSide ==
    ResizedToPositive => LongestSideContract(run.filled, run.resized, run.longest[1])

\* a resize that rounded a half downward (22 x 11 to 15 x 7), or one that
\* lifted a side of 0 to 1
C6_Witness ==
    /\ ResizedToPositive
    /\ run.resized.width = run.longest[1]
    /\ \/ 2 * run.resized.height * run.filled.width
              = 2 * run.filled.height * run.longest[1] - run.filled.width
       \/ 2 * run.filled.height * run.longest[1] < run.filled.width

\* a save() of the decoded 4000 x 3000 image with longest_side(1350) alone
Scenario4000x3000 ==
    /\ storage # <<>>
    /\ run.pre = Decoded(4000, 3000)
    /\ run.border = None /\ run.ratio = None /\ run.longest = Some(1350)

\* C7 as the specification states it: a 4000 x 3000 buffer with
\* longest_side(1350) and no other stage is saved as 1350 x 1012.
C7_Saved1350x1012 ==
    Scenario4000x3000
        => LastWrite.image.width = 1350 /\ LastWrite.image.height = 1012

\* C7: a 4000 x 3000 buffer with longest_side(1350) and no other stage is
\* saved as 1350 x 1013: 3000 * 1350 / 4000 is 1012.5, and the half rounds
\* away from zero.
C7_Saved1350x1013 ==
    Scenario4000x3000
        => LastWrite.image.width = 1350 /\ LastWrite.image.height = 1013

C7_Witness == Scenario4000x3000 /\ Len(storage) = 1

(***************************************************************************)
(* Dimensions.                                                             *)
(***************************************************************************)
Positive(img) == img.width >= 1 /\ img.height >= 1

\* C8: in every state reached from a decoded buffer of positive dimensions by
\* the stages, with any border thickness, any ratio pair and any longest side,
\* 0 included, the width and the height of the buffer are strictly positive.
C8_PositiveDimensions ==
    /\ Positive(image)
    /\ Positive(run.bordered) /\ Positive(run.filled) /\ Positive(run.resized)
    /\ \A i \in 1..Len(storage) : Positive(storage[i].image)

\* a save() with longest_side(0) of a buffer that had more than one pixel
C8_Witness ==
    /\ storage # <<>>
    /\ run.longest = Some(0)
    /\ run.filled.width > 1

(***************************************************************************)
(* Writes to storage.                                                      *)
(***************************************************************************)
\* this step is a call of save(): the only steps that leave calls alone
SaveStep == calls' = calls /\ vars' # vars

BorderOnly ==
    /\ storage # <<>>
    /\ run.border # None /\ run.ratio = None /\ run.longest = None

\* img is a decoded w x h image inside a white border of thickness t
DecodedInBorder(img, w, h, t) ==
    /\ w >= 1 /\ h >= 1
    /\ img.width = w + 2 * t /\ img.height = h + 2 * t
    /\ ContentAt(img, Decoded(w, h), t, t)
    /\ WhiteAround(img, w, h, t, t)

\* the k-th write, for every k, is the decoded w x h image in a border of k * t
CumulativeBorder(w, h, t) ==
    /\ Len(storage) = 1 => (run.pre.width = w /\ run.pre.height = h)
    /\ \A k \in 1..Len(storage) : DecodedInBorder(storage[k].image, w, h, k * t)

\* C11: save() leaves the three requests and the output path as they were and
\* keeps the transformed buffer as the driver's buffer, so the k-th of
\* successive calls of save() starts from what the one before wrote and
\* applies every requested stage again: with a border of thickness t as the
\* only request on a w x h image, the k-th write is (w + 2kt) x (h + 2kt).
C11_SaveIsCumulative ==
    storage # <<>>
        => /\ expected_border_spacing = run.border
           /\ expected_ratio = run.ratio
           /\ expected_longest_side = run.longest
           /\ output = OutPath
           /\ image = LastWrite.image
           /\ Len(storage) >= 2 => run.pre = storage[Len(storage) - 1].image
           /\ BorderOnly
                  => CumulativeBorder(storage[1].image.width - 2 * run.border[1],
                                      storage[1].image.height - 2 * run.border[1],
                                      run.border[1])

\* a second save() with a border alone, thicker than 0: its write is wider
\* than the first one by twice the thickness
C11_Witness ==
    /\ BorderOnly
    /\ Len(storage) = 2
    /\ run.border[1] >= 1
    /\ storage[2].image.width = storage[1].image.width + 2 * run.border[1]

====
